---- MODULE Spec2Model ----
(***************************************************************************)
(* RRT planner of rrt_planner.py: State, steer_algorithm and RRTPlanner    *)
(* (state_is_free, sample_state, _follow_parent_pointers,                  *)
(* find_closest_state, steer_towards, path_is_obstacle_free, plan).        *)
(*                                                                         *)
(* Conventions                                                             *)
(*  - x is the column and y the row of the image (State.__init__).         *)
(*  - State objects live in `heap`, a sequence of records; an object is    *)
(*    its index (identity), its value is <<x, y>> (State.__eq__/__hash__). *)
(*  - A reference that may be None is a sequence: <<>> is None, <<i>> is   *)
(*    the object i.                                                        *)
(*  - Distances are square roots of integers; they are carried as their    *)
(*    squares, and a radius r as the fraction rn/rd = r^2.                 *)
(***************************************************************************)
EXTENDS Integers, Sequences, FiniteSets, TLC

\* Shape of the world array (rows, cols) and the largest arguments drawn.
Rows == 11
Cols == 2
MaxSteps == 2
MaxRadius == 4

\* state_is_free: the half width of the slice [y - 5 : y + 5, x - 5 : x + 5].
Window == 5
\* path_is_obstacle_free: max_checks = 10.
max_checks == 10

VARIABLES
    world,                \* RRTPlanner.world[:, :, 0], per cell <<row, col>>
    occ_grid,             \* RRTPlanner.occ_grid, 1 iff occupied
    heap,                 \* the State objects created so far
    start_state,          \* plan's arguments
    dest_state,
    max_num_steps,
    max_steering_radius,
    dest_reached_radius,
    tree_nodes,           \* plan's local set of tree nodes (object ids)
    plan,                 \* plan's local variable `plan`
    step_count,           \* plan's local variable `step_count`
    checked,              \* <<from, to>> for which path_is_obstacle_free returned True
    ret,                  \* <<value>> once the call has returned, <<>> before
    pc                    \* position of the call

vars == <<world, occ_grid, heap, start_state, dest_state, max_num_steps,
          max_steering_radius, dest_reached_radius, tree_nodes, plan,
          step_count, checked, ret, pc>>

Cells == (0 .. Rows - 1) \X (0 .. Cols - 1)

----------------------------------------------------------------------------
(* class State *)

NewState(x, y, parent) == [x |-> x, y |-> y, parent |-> parent, children |-> <<>>]

\* State.__eq__: equality by coordinates.
StateEq(a, b) == a.x = b.x /\ a.y = b.y

\* State.euclidean_distance, squared.
DistSq(a, b) == (b.x - a.x) * (b.x - a.x) + (b.y - a.y) * (b.y - a.y)

----------------------------------------------------------------------------
(* RRTPlanner.__init__ and state_is_free *)

\* occ_grid = (world[:, :, 0] == 0).astype('uint8')
OccGridOf(w) == [c \in DOMAIN w |-> IF w[c] = 0 THEN 1 ELSE 0]

\* An index of a slice bound, as numpy normalises it on an axis of length n.
SliceBound(i, n) ==
    IF i < 0 THEN (IF i + n < 0 THEN 0 ELSE i + n)
    ELSE (IF i > n THEN n ELSE i)

\* The indices selected by [lo:hi] on an axis of length n.
SliceIdx(lo, hi, n) == SliceBound(lo, n) .. (SliceBound(hi, n) - 1)

StateIsFree(grid, s) ==
    \A r \in SliceIdx(s.y - Window, s.y + Window, Rows) :
        \A c \in SliceIdx(s.x - Window, s.x + Window, Cols) :
            grid[<<r, c>>] = 0

----------------------------------------------------------------------------
(* Arithmetic on the floats of steer_algorithm *)

Sign(v) == IF v > 0 THEN 1 ELSE IF v < 0 THEN 0 - 1 ELSE 0

\* floor(sqrt(n / m)) for integers n >= 0, m > 0.
ISqrt(n, m) == CHOOSE k \in 0 .. (n \div m) : k * k * m <= n /\ (k + 1) * (k + 1) * m > n

\* sqrt(n / m) is an integer.
IsSquare(n, m) == ISqrt(n, m) * ISqrt(n, m) * m = n

\* int(a + sg * sqrt(n / m)) for an integer a and a sign sg: Python's int()
\* truncates towards zero.
IntOf(a, sg, n, m) ==
    LET fl == ISqrt(n, m)
        cl == IF IsSquare(n, m) THEN fl ELSE fl + 1
        floorv == a + (IF sg >= 0 THEN sg * fl ELSE 0 - cl)
        ceilv == a + (IF sg >= 0 THEN sg * cl ELSE 0 - fl)
    IN  IF floorv >= 0 THEN floorv ELSE ceilv

\* int(a + t) where t is the float product sin(theta) * r or cos(theta) * r
\* whose exact value is sg * sqrt(n / m).  When that value is a nonzero integer
\* and theta is not a multiple of pi / 2 (oblique), the rounding of arctan, sin
\* and cos decides on which side of the integer the float lands: both results of
\* the truncation are possible.  Otherwise the truncation is that of the exact
\* value.
IntOfFloat(a, sg, n, m, oblique) ==
    LET v == IntOf(a, sg, n, m)
        onInteger == oblique /\ sg # 0 /\ IsSquare(n, m) /\ ISqrt(n, m) # 0
    IN  IF ~onInteger THEN {v}
        ELSE IF v > 0 THEN {v, v - 1}
        ELSE IF v < 0 THEN {v, v + 1}
        ELSE {v}

----------------------------------------------------------------------------
(* steer_algorithm(s1, s2, height, max_radius), max_radius^2 = rn / rd.    *)
(* The result is the set of pairs [x, y] the floating point evaluation can *)
(* return.                                                                 *)
(*                                                                         *)
(* In the general branch theta is arctan(dy / dx), moved by pi into the    *)
(* quadrant of (dx, dy) when dx < 0, so that cos(theta) = dx / d and       *)
(* sin(theta) = dy / d with d = sqrt(dx^2 + dy^2); hence                   *)
(*   dx2 = cos(theta) * max_radius = sign(dx) * sqrt(rn * dx^2 / (rd * d^2)) *)
(*   dy2 = sin(theta) * max_radius = sign(dy) * sqrt(rn * dy^2 / (rd * d^2)) *)

\* The branch dx == 0: x, y = s1.x, y1 + -sign(real_dy) * max_radius, returned as
\* (x, int(height - y)), that is int(s1.y + sign(real_dy) * max_radius).  There
\* is no trigonometry: max_radius is an integer or float(i) / max_checks * |dy|,
\* whose IEEE double value truncates as the exact one does for the heights
\* modelled (|dy| < 90).
SteerVertical(s1, s2, height, rn, rd) ==
    LET real_dy == s2.y - s1.y
    IN  {[x |-> s1.x, y |-> IntOf(s1.y, Sign(real_dy), rn, rd)]}

\* The branch dx != 0: x, y = int(s1.x + dx2), int(y1 + dy2), returned as
\* (x, int(height - y)).
SteerOblique(s1, s2, height, rn, rd) ==
    LET y1 == height - s1.y
        y2 == height - s2.y
        dx == s2.x - s1.x
        dy == y2 - y1
        d2 == dx * dx + dy * dy
    IN  {[x |-> p[1], y |-> height - p[2]] :
            p \in IntOfFloat(s1.x, Sign(dx), rn * dx * dx, rd * d2, dy # 0)
                  \X IntOfFloat(y1, Sign(dy), rn * dy * dy, rd * d2, dy # 0)}

\* steer_algorithm with the vertical offset taken in the image frame although y1
\* is in the flipped frame (the sign of real_dy not negated).
SteerAlgorithmUnflipped(s1, s2, height, rn, rd) ==
    IF s2.x - s1.x = 0
    THEN {[x |-> s1.x, y |-> IntOf(s1.y, 0 - Sign(s2.y - s1.y), rn, rd)]}
    ELSE SteerOblique(s1, s2, height, rn, rd)

SteerAlgorithm(s1, s2, height, rn, rd) ==
    IF s2.x - s1.x = 0
    THEN SteerVertical(s1, s2, height, rn, rd)
    ELSE SteerOblique(s1, s2, height, rn, rd)

----------------------------------------------------------------------------
(* RRTPlanner: find_closest_state, steer_towards, path_is_obstacle_free,   *)
(* _follow_parent_pointers                                                 *)

\* find_closest_state keeps the first node of list(tree_nodes) at the least
\* distance; the order of a set's elements is not fixed by the program, so any
\* node at the least distance can be the one returned.
FindClosestState(h, nodes, state) ==
    {n \in nodes : \A o \in nodes : DistSq(h[n], state) <= DistSq(h[o], state)}

\* steer_towards(s_nearest, s_rand, max_radius): the States it can return.
SteerTowards(h, s_nearest, s_rand, max_radius) ==
    IF DistSq(s_rand, h[s_nearest]) <= max_radius * max_radius
    THEN {NewState(s_rand.x, s_rand.y, <<s_nearest>>)}
    ELSE {NewState(p.x, p.y, <<s_nearest>>) :
             p \in SteerAlgorithm(h[s_nearest], s_rand, Rows, max_radius * max_radius, 1)}

\* The interpolated points of check i: distance = float(i) / max_checks * dist.
Interpolated(s_from, s_to, i) ==
    SteerAlgorithm(s_from, s_to, Rows, i * i * DistSq(s_from, s_to), max_checks * max_checks)

\* path_is_obstacle_free without the test of s_to itself: only the interpolated
\* points, which stop at 9/10 of the segment, are looked at.
PathIsObstacleFreeNoEndpoint(grid, s_from, s_to) ==
    IF ~StateIsFree(grid, s_from) THEN {"AssertionError"}
    ELSE (IF \A i \in 0 .. max_checks - 1 :
                \E p \in Interpolated(s_from, s_to, i) : StateIsFree(grid, p)
          THEN {"True"} ELSE {})
         \cup
         (IF \E i \in 0 .. max_checks - 1 :
                \E p \in Interpolated(s_from, s_to, i) : ~StateIsFree(grid, p)
          THEN {"False"} ELSE {})

\* path_is_obstacle_free(s_from, s_to): the outcomes it can have.
PathIsObstacleFree(grid, s_from, s_to) ==
    IF ~StateIsFree(grid, s_from) THEN {"AssertionError"}
    ELSE IF ~StateIsFree(grid, s_to) THEN {"False"}
    ELSE (IF \A i \in 0 .. max_checks - 1 :
                \E p \in Interpolated(s_from, s_to, i) : StateIsFree(grid, p)
          THEN {"True"} ELSE {})
         \cup
         (IF \E i \in 0 .. max_checks - 1 :
                \E p \in Interpolated(s_from, s_to, i) : ~StateIsFree(grid, p)
          THEN {"False"} ELSE {})

\* The while loop of _follow_parent_pointers, from curr_ptr with `path` so far.
\* `fuel` is the number of objects: a walk that outlives it is on a cycle.
RECURSIVE FollowLoop(_, _, _, _)
FollowLoop(h, curr_ptr, path, fuel) ==
    IF curr_ptr = <<>> THEN path
    ELSE IF fuel = 0 THEN <<>>
    ELSE FollowLoop(h, h[curr_ptr[1]].parent, Append(path, curr_ptr[1]), fuel - 1)

\* The parent chain from `state` returns to a State already visited: the while
\* loop never ends.
FollowDiverges(h, state) == FollowLoop(h, <<state>>, <<state>>, Len(h)) = <<>>

Reverse(s) == [i \in 1 .. Len(s) |-> s[Len(s) + 1 - i]]

\* _follow_parent_pointers(state): path = [state], the loop, path[::-1].
FollowParentPointers(h, state) == Reverse(FollowLoop(h, <<state>>, <<state>>, Len(h)))

\* tree_nodes as a list: append whatever the coordinates.
TreeAddAlways(h, nodes, s_new) == nodes \cup {s_new}

\* tree_nodes.add(s_new): a set of States keeps one member per (x, y).
TreeAdd(h, nodes, s_new) ==
    IF \E n \in nodes : StateEq(h[n], h[s_new]) THEN nodes ELSE nodes \cup {s_new}

\* The test of the destination with <= for <.
DestReachedInclusive(s_new, dest, radius) == DistSq(s_new, dest) <= radius * radius

\* s_new.euclidean_distance(dest_state) < dest_reached_radius
DestReached(s_new, dest, radius) == DistSq(s_new, dest) < radius * radius

----------------------------------------------------------------------------
(* RRTPlanner.plan *)

\* The world with channel 0 equal to 0 on the cells of `occupied`, 255 elsewhere.
WorldWith(occupied) == [c \in Cells |-> IF c \in occupied THEN 0 ELSE 255]

\* The arguments the calls of plan are drawn from, as <<x, y>>.
PlanWorlds == {WorldWith({}), WorldWith({<<0, 0>>})}
StartChoices == {<<0, 0>>, <<1, 3>>}
DestChoices == {<<0, 5>>, <<1, 6>>}
SteeringRadii == {3}
DestRadii == {3}

Init ==
    /\ world \in PlanWorlds
    /\ occ_grid = OccGridOf(world)
    /\ \E sp \in StartChoices :
          \/ \E dp \in DestChoices :
                /\ heap = <<NewState(sp[1], sp[2], <<>>), NewState(dp[1], dp[2], <<>>)>>
                /\ dest_state = 2
          \/ \* plan(s, s, ...): the same object is start and destination
             /\ heap = <<NewState(sp[1], sp[2], <<>>)>>
             /\ dest_state = 1
    /\ start_state = 1
    /\ max_num_steps \in 0 .. MaxSteps
    /\ max_steering_radius \in SteeringRadii
    /\ dest_reached_radius \in DestRadii
    /\ tree_nodes = {}
    /\ plan = <<>>
    /\ step_count = 0
    /\ checked = {}
    /\ ret = <<>>
    /\ pc = "plan"

\* Lines 213-223: both assertions pass.
PlanBegin ==
    /\ pc = "plan"
    /\ StateIsFree(occ_grid, heap[start_state])
    /\ StateIsFree(occ_grid, heap[dest_state])
    /\ tree_nodes' = {start_state}
    /\ plan' = <<start_state>>
    /\ step_count' = 0
    /\ pc' = "loop"
    /\ UNCHANGED <<world, occ_grid, heap, start_state, dest_state, max_num_steps,
                   max_steering_radius, dest_reached_radius, checked, ret>>

\* Lines 213-214: an assertion fails.
PlanAssertFail ==
    /\ pc = "plan"
    /\ ~(StateIsFree(occ_grid, heap[start_state]) /\ StateIsFree(occ_grid, heap[dest_state]))
    /\ pc' = "AssertionError in plan"
    /\ UNCHANGED <<world, occ_grid, heap, start_state, dest_state, max_num_steps,
                   max_steering_radius, dest_reached_radius, tree_nodes, plan,
                   step_count, checked, ret>>

\* Lines 231-239: s_new passed path_is_obstacle_free from s_nearest.
Insert(s_nearest, s_new) ==
    LET id == Len(heap) + 1
        h1 == Append([heap EXCEPT ![s_nearest].children = Append(@, id)], s_new)
        h2 == [h1 EXCEPT ![dest_state].parent = <<id>>]
    IN  /\ tree_nodes' = TreeAdd(h1, tree_nodes, id)
        /\ checked' = checked \cup {<<s_nearest, id>>}
        /\ IF DestReached(s_new, heap[dest_state], dest_reached_radius)
           THEN /\ heap' = h2
                /\ IF FollowDiverges(h2, dest_state)
                   THEN pc' = "follow loops" /\ plan' = plan
                   ELSE pc' = "break" /\ plan' = FollowParentPointers(h2, dest_state)
           ELSE /\ heap' = h1
                /\ pc' = "loop"
                /\ plan' = plan

\* Lines 224-248: one iteration of the for loop.
Iterate ==
    /\ pc = "loop"
    /\ step_count < max_num_steps
    /\ step_count' = step_count + 1
    /\ \E c \in Cells :
          LET s_rand == NewState(c[2], c[1], <<>>)
          IN  \E s_nearest \in FindClosestState(heap, tree_nodes, s_rand) :
              \E s_new \in SteerTowards(heap, s_nearest, s_rand, max_steering_radius) :
              \E free \in PathIsObstacleFree(occ_grid, heap[s_nearest], s_new) :
                 CASE free = "True" -> Insert(s_nearest, s_new)
                   [] free = "False" ->
                        /\ pc' = "loop"
                        /\ UNCHANGED <<heap, tree_nodes, plan, checked>>
                   [] OTHER ->
                        /\ pc' = "AssertionError in path_is_obstacle_free"
                        /\ UNCHANGED <<heap, tree_nodes, plan, checked>>
    /\ UNCHANGED <<world, occ_grid, start_state, dest_state, max_num_steps,
                   max_steering_radius, dest_reached_radius, ret>>

\* Lines 250-252: after the loop, return [start_state].
PlanReturn ==
    /\ \/ pc = "break"
       \/ pc = "loop" /\ step_count = max_num_steps
    /\ ret' = << <<start_state>> >>
    /\ pc' = "done"
    /\ UNCHANGED <<world, occ_grid, heap, start_state, dest_state, max_num_steps,
                   max_steering_radius, dest_reached_radius, tree_nodes, plan,
                   step_count, checked>>

Next == PlanBegin \/ PlanAssertFail \/ Iterate \/ PlanReturn

Spec == Init /\ [][Next]_vars

----------------------------------------------------------------------------
(* A call of steer_towards on its own: heap[1] is s_nearest, heap[2] is    *)
(* s_rand, and the State returned becomes heap[3].                         *)

InitSteer ==
    /\ world = WorldWith({})
    /\ occ_grid = OccGridOf(world)
    /\ \E a \in Cells, b \in Cells :
          heap = <<NewState(a[2], a[1], <<>>), NewState(b[2], b[1], <<>>)>>
    /\ start_state = 1
    /\ dest_state = 2
    /\ max_num_steps = 0
    /\ max_steering_radius \in 1 .. MaxRadius
    /\ dest_reached_radius = 1
    /\ tree_nodes = {}
    /\ plan = <<>>
    /\ step_count = 0
    /\ checked = {}
    /\ ret = <<>>
    /\ pc = "steer_towards"

CallSteerTowards ==
    /\ pc = "steer_towards"
    /\ \E s_new \in SteerTowards(heap, 1, heap[2], max_steering_radius) :
          heap' = Append(heap, s_new)
    /\ ret' = <<Len(heap) + 1>>
    /\ pc' = "done"
    /\ UNCHANGED <<world, occ_grid, start_state, dest_state, max_num_steps,
                   max_steering_radius, dest_reached_radius, tree_nodes, plan,
                   step_count, checked>>

SpecSteer == InitSteer /\ [][CallSteerTowards]_vars

----------------------------------------------------------------------------
(* A call of state_is_free on its own: heap[1] is the State asked about,   *)
(* in a world with at most one occupied cell.                              *)

InitFree ==
    /\ world \in {WorldWith({})} \cup {WorldWith({c}) : c \in Cells}
    /\ occ_grid = OccGridOf(world)
    /\ \E a \in Cells : heap = <<NewState(a[2], a[1], <<>>)>>
    /\ start_state = 1
    /\ dest_state = 1
    /\ max_num_steps = 0
    /\ max_steering_radius = 1
    /\ dest_reached_radius = 1
    /\ tree_nodes = {}
    /\ plan = <<>>
    /\ step_count = 0
    /\ checked = {}
    /\ ret = <<>>
    /\ pc = "state_is_free"

CallStateIsFree ==
    /\ pc = "state_is_free"
    /\ ret' = <<StateIsFree(occ_grid, heap[1])>>
    /\ pc' = "done"
    /\ UNCHANGED <<world, occ_grid, heap, start_state, dest_state, max_num_steps,
                   max_steering_radius, dest_reached_radius, tree_nodes, plan,
                   step_count, checked>>

SpecFree == InitFree /\ [][CallStateIsFree]_vars

----------------------------------------------------------------------------
(* Properties *)

\* The States created by the iterations of plan: every s_new that passed
\* path_is_obstacle_free.
Inserted == (1 .. Len(heap)) \ {start_state, dest_state}

\* The inserted States whose distance to the destination is below
\* dest_reached_radius.
NearDest ==
    {i \in Inserted :
        DistSq(heap[i], heap[dest_state]) < dest_reached_radius * dest_reached_radius}

\* The parent chain of the object `ref`, root first; it starts with 0 (no
\* object) when the chain is cyclic.
RECURSIVE ChainTo(_, _, _)
ChainTo(h, ref, fuel) ==
    IF ref = <<>> THEN <<>>
    ELSE IF fuel = 0 THEN <<0>>
    ELSE Append(ChainTo(h, h[ref[1]].parent, fuel - 1), ref[1])

Chain(h, s) == ChainTo(h, <<s>>, Len(h))

\* The chain from s ends at start_state and visits no State twice.
ReachesStart(h, s) ==
    LET c == Chain(h, s)
    IN  /\ c[1] = start_state
        /\ \A i, j \in 1 .. Len(c) : i # j => c[i] # c[j]

Abs(v) == IF v < 0 THEN 0 - v ELSE v

\* C1: when an iteration inserts a node closer to the goal than goalRadius,
\* plan returns the path extracted from the goal state: more than one state,
\* the first one start and the last one the goal state.
C1_ReturnsExtractedPath ==
    (pc = "done" /\ NearDest # {}) =>
        /\ ret[1] = plan
        /\ Len(ret[1]) > 1
        /\ ret[1][1] = start_state
        /\ ret[1][Len(ret[1])] = dest_state

\* C2: _follow_parent_pointers returns exactly the states of the parent chain of
\* its argument, each once, root first and the argument last, so that its
\* length is the number of parent hops plus one.
C2_FollowReturnsChain ==
    pc = "break" =>
        /\ plan = Chain(heap, dest_state)
        /\ \A i, j \in 1 .. Len(plan) : i # j => plan[i] # plan[j]
        /\ Len(plan) = Len(Chain(heap, dest_state))

\* C3: when no inserted node comes within goalRadius of the goal, plan runs
\* exactly maxIterations iterations and returns exactly [start]; with
\* maxIterations = 0 nothing is sampled or inserted.
C3_ExhaustionReturnsStart ==
    (pc = "done" /\ NearDest = {}) =>
        /\ ret = << <<start_state>> >>
        /\ step_count = max_num_steps
        /\ max_num_steps = 0 => (Inserted = {} /\ tree_nodes = {start_state} /\ checked = {})

\* C3 witness: a run of two or more iterations that inserted nodes, none of them
\* near the goal, has returned.
C3_Witness ==
    /\ pc = "done"
    /\ NearDest = {}
    /\ Inserted # {}
    /\ step_count >= 2

\* C4: in the plan extracted from the goal state every pair of consecutive
\* states, the hop into the goal state included, is a segment for which
\* path_is_obstacle_free returned true earlier in the run.
C4_PlanSegmentsChecked ==
    pc = "break" =>
        \A i \in 1 .. Len(plan) - 1 : <<plan[i], plan[i + 1]>> \in checked

\* C5: when the grid cell of start or of the goal is occupied, plan fails its
\* precondition: it never reaches the loop.
C5_OccupiedEndpointRejected ==
    (\/ occ_grid[<<heap[start_state].y, heap[start_state].x>>] = 1
     \/ occ_grid[<<heap[dest_state].y, heap[dest_state].x>>] = 1)
        => pc \in {"plan", "AssertionError in plan"}

\* C6: state_is_free returns true exactly when every grid cell of rows
\* y-5..y+4 and columns x-5..x+4, the point's own cell among them, is
\* unoccupied.
C6_FreeIffWindowClear ==
    pc = "done" =>
        (ret[1] <=>
            \A r \in heap[1].y - Window .. heap[1].y + Window - 1 :
                \A c \in heap[1].x - Window .. heap[1].x + Window - 1 :
                    <<r, c>> \in Cells => occ_grid[<<r, c>>] = 0)

\* C7: for from and to on the same column and a positive integer radius r,
\* steer_towards returns x = from.x and y = to.y when |to.y - from.y| <= r, and
\* y = from.y + sign(to.y - from.y) * r otherwise; the parent is from.
C7_VerticalSteer ==
    (pc = "done" /\ heap[2].x = heap[1].x) =>
        LET from == heap[1]
            to == heap[2]
            s_new == heap[ret[1]]
            r == max_steering_radius
        IN  /\ s_new.x = from.x
            /\ s_new.y = IF Abs(to.y - from.y) <= r
                         THEN to.y
                         ELSE from.y + Sign(to.y - from.y) * r
            /\ s_new.parent = <<1>>

\* C7 witness: a vertical target above the start (row decreasing), farther than
\* the radius, has been steered to.
C7_Witness ==
    /\ pc = "done"
    /\ heap[2].x = heap[1].x
    /\ heap[1].y - heap[2].y > max_steering_radius
    /\ heap[ret[1]].y = heap[1].y - max_steering_radius

\* C8: at every point of a run of plan, also when the goal is the same State as
\* start, every tree node but start has a tree node as its parent, and the parent
\* pointers lead from every tree node, and from the goal once it is linked, to
\* start without visiting a State twice.
C8_ParentsRootedAcyclic ==
    pc \in {"loop", "break", "follow loops", "done"} =>
        /\ \A n \in tree_nodes \ {start_state} :
              heap[n].parent # <<>> /\ heap[n].parent[1] \in tree_nodes
        /\ \A n \in tree_nodes : ReachesStart(heap, n)
        /\ heap[dest_state].parent # <<>> => ReachesStart(heap, dest_state)

\* C9: every node of the tree satisfies state_is_free at every iteration, and
\* the assertion at the top of path_is_obstacle_free never fails.
C9_TreeNodesFree ==
    /\ pc # "AssertionError in path_is_obstacle_free"
    /\ \A n \in tree_nodes : StateIsFree(occ_grid, heap[n])

\* C9 witness: in the world with an occupied cell the tree has grown to three
\* nodes.
C9_Witness ==
    /\ occ_grid[<<0, 0>>] = 1
    /\ Cardinality(tree_nodes) >= 3

\* C10: in every iteration whose edge passes path_is_obstacle_free the tree
\* node set grows by exactly one member, and it never loses a member.
C10_InsertGrowsByOne ==
    [][/\ tree_nodes \subseteq tree_nodes'
       /\ checked' # checked =>
             Cardinality(tree_nodes') = Cardinality(tree_nodes) + 1]_vars

\* C10 as amended: in every iteration whose edge passes path_is_obstacle_free the
\* tree node set grows by exactly one member when no tree node has the (x, y)
\* of the steered point and is unchanged when one has; it never loses a member.
C10_InsertGrowsUnlessAbsorbed ==
    [][/\ tree_nodes \subseteq tree_nodes'
       /\ checked' # checked =>
             IF \E n \in tree_nodes : StateEq(heap[n], heap'[Len(heap')])
             THEN tree_nodes' = tree_nodes
             ELSE Cardinality(tree_nodes') = Cardinality(tree_nodes) + 1]_vars

\* C10 witness: the tree has grown, and a State that passed the check was
\* absorbed by a tree node with its coordinates.
C10_Witness ==
    /\ Cardinality(tree_nodes) >= 2
    /\ \E i \in Inserted : i \notin tree_nodes

====
